---- MODULE Spec2Model ----
(***************************************************************************)
(* Model of olist/order.py: the Order feature builder.  An Order instance  *)
(* holds self.data, a mapping from table name to table; every method       *)
(* derives a table from it.  Tables are sequences of rows, rows are        *)
(* records, and a cell that pandas may hold as NaN / NaT is <<>> (missing) *)
(* or <<v>> (present).                                                     *)
(***************************************************************************)
EXTENDS Integers, Sequences, FiniteSets, TLC

VARIABLES
    data,   \* self.data: the loaded mapping
    call,   \* the last method called on the instance, with its arguments
    out,    \* the table that call returned
    memo    \* an observer's snapshot of one earlier call and its output

vars == <<data, call, out, memo>>

(***************************************************************************)
(* Cells and generic table operations (pandas semantics).                  *)
(***************************************************************************)
NaN == <<>>
Some(v) == <<v>>
Val(c) == c[1]
isna(c) == c = NaN

None == [op |-> "none", args |-> <<>>]

\* Columns whose cells may be missing; every other column holds plain values.
NullableColumns ==
    {"order_purchase_timestamp", "order_approved_at",
     "order_delivered_carrier_date", "order_delivered_customer_date",
     "order_estimated_delivery_date", "wait_time", "expected_wait_time",
     "review_score", "seller_id", "geolocation_lat", "geolocation_lng",
     "geolocation_lat_seller", "geolocation_lng_seller",
     "geolocation_lat_customer", "geolocation_lng_customer",
     "distance_seller_customer"}

\* DataFrame.copy(): a new frame with the same cells.
copy(table) == [i \in DOMAIN table |-> table[i]]

\* DataFrame.dropna(): keep the rows without a missing cell.
RowHasNa(row) == \E c \in (DOMAIN row) \cap NullableColumns : isna(row[c])
dropna(table) ==
    LET Keep(row) == ~RowHasNa(row)
    IN  SelectSeq(table, Keep)

\* The distinct values of a plain column, as a set.
ColumnValues(table, col) == {table[i][col] : i \in DOMAIN table}

\* groupby sorts its keys: KeyOrder is the order ids in use (o9 occurs in
\* Reviews and Order Items only), in lexicographic order.
KeyOrder == <<"o1", "o2", "o9">>

IsDelivered(o) == o.order_status = "delivered"

(***************************************************************************)
(* Timestamps.  The CSV holds text; a text timestamp is modelled by its    *)
(* day number and its tick within the day.  pd.to_datetime turns it into   *)
(* an instant (ticks since the epoch); a Timedelta is a number of ticks.   *)
(***************************************************************************)
TicksPerDay == 2

to_datetime(c) ==
    IF isna(c) THEN NaN ELSE Some(Val(c).day * TicksPerDay + Val(c).tick)

\* datetime - datetime: NaT when either side is NaT.
Minus(a, b) == IF isna(a) \/ isna(b) THEN NaN ELSE Some(Val(a) - Val(b))

\* Series.dt.days: the days component of a Timedelta (floor), NaN for NaT.
dt_days(td) == IF isna(td) THEN NaN ELSE Some(Val(td) \div TicksPerDay)

\* lambda x: x if x > 0 else 0   (NaN > 0 is False)
clamp_keep_negative(x) == IF isna(x) THEN 0 ELSE Val(x)
clamp(x) == IF ~isna(x) /\ Val(x) > 0 THEN Val(x) ELSE 0

date_columns ==
    <<"order_purchase_timestamp", "order_approved_at",
      "order_delivered_carrier_date", "order_delivered_customer_date",
      "order_estimated_delivery_date">>

\* for col in date_columns: orders[col] = pd.to_datetime(orders[col])
ParseDates(o) ==
    [c \in DOMAIN o |->
        IF \E i \in DOMAIN date_columns : date_columns[i] = c
        THEN to_datetime(o[c]) ELSE o[c]]

wait_time_swapped(o) ==
    Minus(o.order_purchase_timestamp, o.order_delivered_customer_date)
wait_time(o) ==
    Minus(o.order_delivered_customer_date, o.order_purchase_timestamp)

expected_wait_time(o) ==
    Minus(o.order_estimated_delivery_date, o.order_purchase_timestamp)

delay_vs_expected(o) ==
    clamp(dt_days(Minus(o.order_delivered_customer_date,
                        o.order_estimated_delivery_date)))

\* Order.get_wait_time: returns [ret |-> the table, data |-> self.data after].
get_wait_time(self_data, is_delivered) ==
    LET orders   == copy(self_data.orders)
        filtered == SelectSeq(orders, IsDelivered)
        WaitRow(o) ==
            LET p == ParseDates(o)
            IN  [order_id           |-> p.order_id,
                 wait_time          |-> wait_time(p),
                 expected_wait_time |-> expected_wait_time(p),
                 delay_vs_expected  |-> delay_vs_expected(p),
                 order_status       |-> p.order_status]
    IN  [ret  |-> [i \in DOMAIN filtered |-> WaitRow(filtered[i])],
         data |-> self_data]

(***************************************************************************)
(* merge and groupby.                                                      *)
(***************************************************************************)
RECURSIVE Concat(_)
Concat(tables) ==
    IF tables = <<>> THEN <<>> ELSE Head(tables) \o Concat(Tail(tables))

\* left.merge(right, left_on=..., right_on=...) (how='inner'): for each left
\* row, in order, one row per right row with an equal key, holding the
\* columns of both.
Merge(left, right, left_on, right_on) ==
    Concat([i \in DOMAIN left |->
        LET Matches(r) == r[right_on] = left[i][left_on]
            m == SelectSeq(right, Matches)
        IN  [j \in DOMAIN m |-> left[i] @@ m[j]]])

\* left.merge(right, how='left', ...): a left row without a match is kept
\* once, with the right table's columns missing.
MergeLeft(left, right, left_on, right_on, right_columns) ==
    Concat([i \in DOMAIN left |->
        LET Matches(r) == r[right_on] = left[i][left_on]
            m == SelectSeq(right, Matches)
        IN  IF m = <<>> THEN <<left[i] @@ [c \in right_columns |-> NaN]>>
            ELSE [j \in DOMAIN m |-> left[i] @@ m[j]]])

\* merge(..., on='order_id')
MergeOnOrderId(left, right) == Merge(left, right, "order_id", "order_id")

\* table[[columns]]
Columns(table, columns) ==
    [i \in DOMAIN table |-> [c \in columns |-> table[i][c]]]

\* merge(..., suffixes=...): the columns both sides hold get new names.
Renamed(table, names) ==
    [i \in DOMAIN table |->
        [c \in {names[k] : k \in DOMAIN names} \cup (DOMAIN table[i] \ DOMAIN names) |->
            IF c \in DOMAIN table[i] \ DOMAIN names THEN table[i][c]
            ELSE table[i][CHOOSE k \in DOMAIN names : names[k] = c]]]

\* A group per category, observed in the table or not.
GroupKeys_all(table, col, order) == order
\* A key per row, without grouping.
GroupKeys_per_row(table, col, order) == [i \in DOMAIN table |-> table[i][col]]
\* groupby(col): the group keys, sorted, each once.
GroupKeys(table, col, order) ==
    LET Present(k) == k \in ColumnValues(table, col)
    IN  SelectSeq(order, Present)

\* The rows of one group, in table order.
Group(table, col, k) ==
    LET InGroup(row) == row[col] = k
    IN  SelectSeq(table, InGroup)

RECURSIVE SumColumn(_, _)
SumColumn(rows, col) ==
    IF rows = <<>> THEN 0 ELSE Head(rows)[col] + SumColumn(Tail(rows), col)

\* Series.nunique(): the number of distinct non-missing values.
nunique(rows, col) ==
    Cardinality({Val(rows[i][col]) : i \in {j \in DOMAIN rows : ~isna(rows[j][col])}})

\* GroupBy.first(): the first non-missing cell of the column in the group.
RECURSIVE first(_, _)
first(rows, col) ==
    IF rows = <<>> THEN NaN
    ELSE IF ~isna(Head(rows)[col]) THEN Head(rows)[col]
    ELSE first(Tail(rows), col)

(***************************************************************************)
(* Order.get_review_score                                                  *)
(***************************************************************************)
is_five_star(x) == IF ~isna(x) /\ Val(x) = 5 THEN 1 ELSE 0

is_one_star_at_most_two(x) == IF ~isna(x) /\ Val(x) <= 2 THEN 1 ELSE 0
is_one_star(x) == IF ~isna(x) /\ Val(x) = 1 THEN 1 ELSE 0

ScoredReview(r) ==
    [dim_is_five_star |-> is_five_star(r.review_score),
     dim_is_one_star  |-> is_one_star(r.review_score)] @@ r

ReviewScoreRow(r) ==
    [order_id         |-> r.order_id,
     dim_is_five_star |-> r.dim_is_five_star,
     dim_is_one_star  |-> r.dim_is_one_star,
     review_score     |-> r.review_score]

\* The method without .copy(): the indicator columns land in self.data.
get_review_score_in_place(self_data) ==
    LET reviews == [i \in DOMAIN self_data.order_reviews |->
                        ScoredReview(self_data.order_reviews[i])]
    IN  [ret  |-> [i \in DOMAIN reviews |-> ReviewScoreRow(reviews[i])],
         data |-> [self_data EXCEPT !.order_reviews = reviews]]
\* The method with one row per order: drop_duplicates('order_id').
get_review_score_dedup(self_data) ==
    LET copied  == copy(self_data.order_reviews)
        reviews == [i \in DOMAIN copied |-> ScoredReview(copied[i])]
        First(i) == \A j \in 1..(i - 1) : reviews[j].order_id # reviews[i].order_id
        kept    == SelectSeq([i \in DOMAIN reviews |-> <<i, reviews[i]>>],
                             LAMBDA x : First(x[1]))
    IN  [ret  |-> [i \in DOMAIN kept |-> ReviewScoreRow(kept[i][2])],
         data |-> self_data]
get_review_score(self_data) ==
    LET copied  == copy(self_data.order_reviews)
        reviews == [i \in DOMAIN copied |-> ScoredReview(copied[i])]
    IN  [ret  |-> [i \in DOMAIN reviews |-> ReviewScoreRow(reviews[i])],
         data |-> self_data]

(***************************************************************************)
(* The Order Items aggregations.                                           *)
(***************************************************************************)
get_number_products(self_data) ==
    LET order_items == copy(self_data.order_items)
        keys == GroupKeys(order_items, "order_id", KeyOrder)
    IN  [ret  |-> [i \in DOMAIN keys |->
                     [order_id |-> keys[i],
                      number_of_products |->
                          SumColumn(Group(order_items, "order_id", keys[i]),
                                    "order_item_id")]],
         data |-> self_data]

\* count() in place of nunique(): repeated sellers are counted again.
get_number_sellers_count(self_data) ==
    LET order_items == copy(self_data.order_items)
        keys == GroupKeys(order_items, "order_id", KeyOrder)
    IN  [ret  |-> [i \in DOMAIN keys |->
                     [order_id |-> keys[i],
                      number_of_sellers |->
                          Len(dropna(Group(order_items, "order_id", keys[i])))]],
         data |-> self_data]
get_number_sellers(self_data) ==
    LET order_items == copy(self_data.order_items)
        keys == GroupKeys(order_items, "order_id", KeyOrder)
    IN  [ret  |-> [i \in DOMAIN keys |->
                     [order_id |-> keys[i],
                      number_of_sellers |->
                          nunique(Group(order_items, "order_id", keys[i]),
                                  "seller_id")]],
         data |-> self_data]

get_price_and_freight(self_data) ==
    LET order_items == copy(self_data.order_items)
        keys == GroupKeys(order_items, "order_id", KeyOrder)
    IN  [ret  |-> [i \in DOMAIN keys |->
                     LET g == Group(order_items, "order_id", keys[i])
                     IN  [order_id      |-> keys[i],
                          price         |-> SumColumn(g, "price"),
                          freight_value |-> SumColumn(g, "freight_value")]],
         data |-> self_data]

(***************************************************************************)
(* Order.get_distance_seller_customer                                      *)
(***************************************************************************)
ZipOrder == <<"z1", "z2", "z3">>

\* Metres of a quarter great circle, 6371 km * pi / 2.
QuarterCircle == 10007543

Abs(x) == IF x < 0 THEN -x ELSE x

\* olist.utils.haversine_distance for two points on one meridian
\* (lon1 = lon2), where the formula reduces to R * |lat2 - lat1| in radians;
\* degrees in, metres out.
haversine_distance(lon1, lat1, lon2, lat2) ==
    (QuarterCircle * Abs(lat2 - lat1)) \div 90

\* geolocation.groupby('geolocation_zip_code_prefix', as_index=False).first()
FirstPerPrefix(geolocation) ==
    LET keys == GroupKeys(geolocation, "geolocation_zip_code_prefix", ZipOrder)
    IN  [i \in DOMAIN keys |->
            LET g == Group(geolocation, "geolocation_zip_code_prefix", keys[i])
            IN  [geolocation_zip_code_prefix |-> keys[i],
                 geolocation_lat |-> first(g, "geolocation_lat"),
                 geolocation_lng |-> first(g, "geolocation_lng")]]

GeolocationColumns ==
    {"geolocation_zip_code_prefix", "geolocation_lat", "geolocation_lng"}

\* sellers.merge(geolocation, how='left', ...)[[seller_id, prefix, lat, lng]]
SellersGeo(sellers, geolocation) ==
    Columns(MergeLeft(sellers, geolocation, "seller_zip_code_prefix",
                      "geolocation_zip_code_prefix", GeolocationColumns),
            {"seller_id", "seller_zip_code_prefix",
             "geolocation_lat", "geolocation_lng"})

\* customers.merge(geolocation, how='left', ...)[[customer_id, prefix, lat, lng]]
CustomersGeo(customers, geolocation) ==
    Columns(MergeLeft(customers, geolocation, "customer_zip_code_prefix",
                      "geolocation_zip_code_prefix", GeolocationColumns),
            {"customer_id", "customer_zip_code_prefix",
             "geolocation_lat", "geolocation_lng"})

\* orders[[order_id, customer_id]].merge(order_items[[order_id, seller_id]],
\*                                       how='left', on='order_id')
OrdersCustomersSellers(orders, order_items) ==
    MergeLeft(Columns(orders, {"order_id", "customer_id"}),
              Columns(order_items, {"order_id", "seller_id"}),
              "order_id", "order_id", {"seller_id"})

\* .merge(sellers_geo, on='seller_id')
\*  .merge(customers_geo, on='customer_id', suffixes=('_seller','_customer'))
OrdersCustomersSellersGeo(ocs, sellers_geo, customers_geo) ==
    Merge(Renamed(Merge(ocs, sellers_geo, "seller_id", "seller_id"),
                  [geolocation_lat |-> "geolocation_lat_seller",
                   geolocation_lng |-> "geolocation_lng_seller"]),
          Renamed(customers_geo,
                  [geolocation_lat |-> "geolocation_lat_customer",
                   geolocation_lng |-> "geolocation_lng_customer"]),
          "customer_id", "customer_id")

WithDistance(row) ==
    row @@ [distance_seller_customer |->
                haversine_distance(Val(row.geolocation_lng_seller),
                                   Val(row.geolocation_lat_seller),
                                   Val(row.geolocation_lng_customer),
                                   Val(row.geolocation_lat_customer))]

\* groupby('order_id', as_index=False).agg({'distance_seller_customer':'mean'})
\* (the mean of no values is NaN; distances are whole metres)
MeanDistance(rows) ==
    IF rows = <<>> THEN NaN
    ELSE Some(SumColumn(rows, "distance_seller_customer") \div Len(rows))

get_distance_seller_customer(self_data) ==
    LET geolocation == FirstPerPrefix(self_data.geolocation)
        merged == dropna(OrdersCustomersSellersGeo(
                      OrdersCustomersSellers(self_data.orders,
                                             self_data.order_items),
                      SellersGeo(self_data.sellers, geolocation),
                      CustomersGeo(self_data.customers, geolocation)))
        rows == [i \in DOMAIN merged |-> WithDistance(merged[i])]
        keys == GroupKeys(rows, "order_id", KeyOrder)
    IN  [ret  |-> [i \in DOMAIN keys |->
                     [order_id |-> keys[i],
                      distance_seller_customer |->
                          MeanDistance(Group(rows, "order_id", keys[i]))]],
         data |-> self_data]

(***************************************************************************)
(* Order.get_training_data                                                 *)
(***************************************************************************)
\* The chain of inner merges, each method called on the instance in turn.
MergedFeatures(self_data, is_delivered, with_distance_seller_customer) ==
    LET w == get_wait_time(self_data, is_delivered)
        r == get_review_score(w.data)
        p == get_number_products(r.data)
        s == get_number_sellers(p.data)
        f == get_price_and_freight(s.data)
        five == MergeOnOrderId(MergeOnOrderId(MergeOnOrderId(MergeOnOrderId(
                    w.ret, r.ret), p.ret), s.ret), f.ret)
    IN  IF with_distance_seller_customer
        THEN LET d == get_distance_seller_customer(f.data)
             IN  [ret |-> MergeOnOrderId(five, d.ret), data |-> d.data]
        ELSE [ret |-> five, data |-> f.data]

\* Returning the merged table without .dropna().
get_training_data_keep_na(self_data, is_delivered, with_distance_seller_customer) ==
    MergedFeatures(self_data, is_delivered, with_distance_seller_customer)
get_training_data(self_data, is_delivered, with_distance_seller_customer) ==
    LET m == MergedFeatures(self_data, is_delivered,
                            with_distance_seller_customer)
    IN  [ret |-> dropna(m.ret), data |-> m.data]

(***************************************************************************)
(* The loaded mappings the instance is constructed with (Olist.get_data):  *)
(* bounded families of tables.                                             *)
(***************************************************************************)
MaxDay == 1         \* text timestamps lie on days 0..MaxDay
MaxReviews == 2     \* rows of the Reviews table
MaxItems == 2       \* rows of the Order Items table

Statuses == {"delivered", "shipped"}
Scores == 1..5
OrderItemIds == 1..2

Text(d, t) == Some([day |-> d, tick |-> t])
TextTimes == {Text(d, t) : d \in 0..MaxDay, t \in 0..(TicksPerDay - 1)}

CustomerOf(id) == IF id = "o1" THEN "c1" ELSE "c2"

OrderRow(id, status, purchase, delivered, estimated) ==
    [order_id                      |-> id,
     customer_id                   |-> CustomerOf(id),
     order_status                  |-> status,
     order_purchase_timestamp      |-> purchase,
     order_approved_at             |-> purchase,
     order_delivered_carrier_date  |-> NaN,
     order_delivered_customer_date |-> delivered,
     order_estimated_delivery_date |-> estimated]

\* Any status, a purchase on day 0, any (or no) delivery and estimate.
OrderRowsAnyTime(id) ==
    {OrderRow(id, st, Text(0, t), d, e) :
        st \in Statuses, t \in 0..(TicksPerDay - 1),
        d \in TextTimes \cup {NaN}, e \in TextTimes \cup {NaN}}

\* Any status, delivered on day 1 or not at all, fixed purchase and estimate.
OrderRowsBasic(id) ==
    {OrderRow(id, st, Text(0, 0), d, Text(0, 1)) :
        st \in Statuses, d \in {Text(1, 0), NaN}}

\* Orders tables: one row per order, over the orders o1 and o2; rows maps
\* an order id to the rows it may have.
OrdersTables(rows) ==
    {<<>>}
    \cup {<<r>> : r \in rows["o1"] \cup rows["o2"]}
    \cup {<<r1, r2>> : r1 \in rows["o1"], r2 \in rows["o2"]}

OrdersBasic == OrdersTables([id \in {"o1", "o2"} |-> OrderRowsBasic(id)])
OrdersAnyTime == OrdersTables([id \in {"o1", "o2"} |-> OrderRowsAnyTime(id)])

\* All tables of at most n rows drawn from a set of rows.
Tables(rows, n) == UNION {[1..k -> rows] : k \in 0..n}

\* The same up to row order: rows taken in the order of a sequence of rows.
SortedTables(rowSeq, n) ==
    {[i \in DOMAIN f |-> rowSeq[f[i]]] :
        f \in {g \in UNION {[1..k -> DOMAIN rowSeq] : k \in 0..n} :
                  \A i \in DOMAIN g : i = 1 \/ g[i - 1] <= g[i]}}

ReviewRow(id, score) == [order_id |-> id, review_score |-> score]

ReviewRowsAnyScore ==
    {ReviewRow(KeyOrder[i], sc) :
        i \in DOMAIN KeyOrder, sc \in {Some(x) : x \in Scores} \cup {NaN}}

ReviewRowsBasic ==
    <<ReviewRow("o1", Some(5)), ReviewRow("o1", NaN),
      ReviewRow("o2", Some(1)), ReviewRow("o2", NaN),
      ReviewRow("o9", Some(5)), ReviewRow("o9", NaN)>>

ItemRow(id, item, seller, price, freight) ==
    [order_id |-> id, order_item_id |-> item, seller_id |-> seller,
     price |-> price, freight_value |-> freight]

\* Price and freight in cents.
ItemRowsAny ==
    {ItemRow(KeyOrder[i], n, s, pf[1], pf[2]) :
        i \in DOMAIN KeyOrder, n \in OrderItemIds,
        s \in {Some("s1"), Some("s2"), NaN},
        pf \in {<<1000, 200>>, <<550, 100>>}}

ItemRowsBasic ==
    <<ItemRow("o1", 1, Some("s1"), 1000, 200),
      ItemRow("o2", 1, Some("s2"), 550, 100),
      ItemRow("o9", 1, Some("s1"), 550, 100)>>

SellersTable ==
    <<[seller_id |-> Some("s1"), seller_zip_code_prefix |-> "z1"],
      [seller_id |-> Some("s2"), seller_zip_code_prefix |-> "z2"]>>

\* Customer c2 lives at a prefix with (z2) or without (z3) a geolocation.
CustomersTables ==
    {<<[customer_id |-> "c1", customer_zip_code_prefix |-> "z1"],
       [customer_id |-> "c2", customer_zip_code_prefix |-> z]>> :
        z \in {"z2", "z3"}}

\* Prefix z1 has two geolocation rows.
GeolocationTable ==
    <<[geolocation_zip_code_prefix |-> "z1",
       geolocation_lat |-> Some(0), geolocation_lng |-> Some(0)],
      [geolocation_zip_code_prefix |-> "z1",
       geolocation_lat |-> Some(90), geolocation_lng |-> Some(0)],
      [geolocation_zip_code_prefix |-> "z2",
       geolocation_lat |-> Some(90), geolocation_lng |-> Some(0)]>>

Mapping(orders, reviews, items, customers) ==
    [orders        |-> orders,
     order_reviews |-> reviews,
     order_items   |-> items,
     sellers       |-> SellersTable,
     customers     |-> customers,
     geolocation   |-> GeolocationTable]

MaxSince == 2       \* the observer counts the calls after its snapshot up to here

NoMemo == [call |-> None, out |-> <<>>, since |-> 0]

\* The observer's count of the calls made since its snapshot.
Observe(m) ==
    IF m = NoMemo \/ m.since >= MaxSince THEN m
    ELSE [m EXCEPT !.since = @ + 1]

\* Order.__init__: self.data = Olist().get_data()
Constructed(mappings) ==
    /\ data \in mappings
    /\ call = None
    /\ out = <<>>
    /\ memo = NoMemo

BasicOrders == <<OrderRow("o1", "delivered", Text(0, 0), Text(1, 0), Text(0, 1)),
                 OrderRow("o2", "delivered", Text(0, 0), Text(1, 1), Text(0, 1))>>

ZipOfC2(z) ==
    {c \in CustomersTables : c[2].customer_zip_code_prefix = z}

BasicReviews ==
    <<ReviewRow("o1", Some(5)), ReviewRow("o1", Some(1)), ReviewRow("o9", NaN)>>

\* One of Reviews and Order Items departs from the basic tables.
Init ==
    Constructed(
        {Mapping(o, r, ItemRowsBasic, c) :
            o \in OrdersBasic,
            r \in SortedTables(ReviewRowsBasic, MaxReviews),
            c \in ZipOfC2("z3")}
        \cup
        {Mapping(o, BasicReviews, i, c) :
            o \in OrdersBasic,
            i \in SortedTables(ItemRowsBasic, MaxItems),
            c \in ZipOfC2("z3")})

\* Orders, Reviews and Order Items all vary.
InitTrain ==
    Constructed({Mapping(o, r, i, c) :
        o \in OrdersBasic,
        r \in SortedTables(SubSeq(ReviewRowsBasic, 1, 5), MaxReviews),
        i \in SortedTables(SubSeq(ItemRowsBasic, 1, 2), MaxItems),
        c \in ZipOfC2("z3")})

InitWait ==
    Constructed({Mapping(o, <<>>, <<>>, c) :
        o \in OrdersAnyTime,
        c \in ZipOfC2("z2")})

InitReview ==
    Constructed({Mapping(BasicOrders, r, <<>>, c) :
        r \in Tables(ReviewRowsAnyScore, MaxReviews),
        c \in ZipOfC2("z2")})

InitItems ==
    Constructed({Mapping(BasicOrders, <<>>, i, c) :
        i \in Tables(ItemRowsAny, MaxItems),
        c \in ZipOfC2("z2")})

InitRepeat ==
    Constructed({Mapping(o, BasicReviews, ItemRowsBasic, c) :
        o \in OrdersBasic, c \in CustomersTables})

(***************************************************************************)
(* The calls on the instance: each sets self.data to what the method       *)
(* leaves there and records the call and the table it returned.            *)
(***************************************************************************)
GetWaitTime ==
    \E is_delivered \in BOOLEAN :
        LET r == get_wait_time(data, is_delivered)
        IN  /\ data' = r.data
            /\ call' = [op |-> "get_wait_time", args |-> <<is_delivered>>]
            /\ out' = r.ret
            /\ memo' = Observe(memo)

GetReviewScore ==
    LET r == get_review_score(data)
    IN  /\ data' = r.data
        /\ call' = [op |-> "get_review_score", args |-> <<>>]
        /\ out' = r.ret
        /\ memo' = Observe(memo)

GetNumberProducts ==
    LET r == get_number_products(data)
    IN  /\ data' = r.data
        /\ call' = [op |-> "get_number_products", args |-> <<>>]
        /\ out' = r.ret
        /\ memo' = Observe(memo)

GetNumberSellers ==
    LET r == get_number_sellers(data)
    IN  /\ data' = r.data
        /\ call' = [op |-> "get_number_sellers", args |-> <<>>]
        /\ out' = r.ret
        /\ memo' = Observe(memo)

GetPriceAndFreight ==
    LET r == get_price_and_freight(data)
    IN  /\ data' = r.data
        /\ call' = [op |-> "get_price_and_freight", args |-> <<>>]
        /\ out' = r.ret
        /\ memo' = Observe(memo)

GetDistanceSellerCustomer ==
    LET r == get_distance_seller_customer(data)
    IN  /\ data' = r.data
        /\ call' = [op |-> "get_distance_seller_customer", args |-> <<>>]
        /\ out' = r.ret
        /\ memo' = Observe(memo)

GetTrainingData ==
    \E is_delivered \in BOOLEAN, with_distance_seller_customer \in BOOLEAN :
        LET r == get_training_data(data, is_delivered,
                                   with_distance_seller_customer)
        IN  /\ data' = r.data
            /\ call' = [op |-> "get_training_data",
                        args |-> <<is_delivered, with_distance_seller_customer>>]
            /\ out' = r.ret
            /\ memo' = Observe(memo)

\* The observer keeps the call just made and its output, once.
Remember ==
    /\ memo = NoMemo
    /\ call # None
    /\ memo' = [call |-> call, out |-> out, since |-> 0]
    /\ UNCHANGED <<data, call, out>>

Next ==
    \/ GetWaitTime
    \/ GetReviewScore
    \/ GetNumberProducts
    \/ GetNumberSellers
    \/ GetPriceAndFreight
    \/ GetDistanceSellerCustomer
    \/ GetTrainingData

NextWait == GetWaitTime

NextReview == GetReviewScore

NextItems ==
    \/ GetNumberProducts
    \/ GetNumberSellers
    \/ GetPriceAndFreight
    \/ GetDistanceSellerCustomer

NextTrain == GetTrainingData

NextRepeat == Next \/ Remember

Spec == Init /\ [][Next]_vars
SpecWait == InitWait /\ [][NextWait]_vars
SpecReview == InitReview /\ [][NextReview]_vars
SpecItems == InitItems /\ [][NextItems]_vars
SpecTrain == InitTrain /\ [][NextTrain]_vars
SpecRepeat == InitRepeat /\ [][NextRepeat]_vars

(***************************************************************************)
(* Properties.                                                             *)
(***************************************************************************)
Called(op) == call.op = op

OrderIds(table) == [i \in DOMAIN table |-> table[i].order_id]
IdSet(table) == {table[i].order_id : i \in DOMAIN table}
RowsOf(table, id) == {i \in DOMAIN table : table[i].order_id = id}

\* The instant a text timestamp denotes, in ticks.
Ticks(c) == Val(c).day * TicksPerDay + Val(c).tick

\* The Orders row an output row comes from (order_id is unique in Orders).
Source(row) ==
    data.orders[CHOOSE i \in DOMAIN data.orders :
                    data.orders[i].order_id = row.order_id]

Delivered == SelectSeq(data.orders, IsDelivered)

\* C1: get_wait_time(is_delivered=True) returns exactly the rows of the
\* delivered orders, and get_wait_time(is_delivered=False) returns one row
\* for every order whatever its status.
C1_StatusFilterFollowsFlag ==
    Called("get_wait_time") =>
        OrderIds(out) = IF call.args[1] THEN OrderIds(Delivered)
                        ELSE OrderIds(data.orders)

\* C2: a row of the training table has an order_id that occurs in every
\* merged derivation (and in the distance table when that was asked for),
\* and none of its cells is missing.
C2_InnerJoinWithoutMissing ==
    Called("get_training_data") =>
        \A i \in DOMAIN out :
            /\ out[i].order_id \in IdSet(get_wait_time(data, call.args[1]).ret)
            /\ out[i].order_id \in IdSet(get_review_score(data).ret)
            /\ out[i].order_id \in IdSet(get_number_products(data).ret)
            /\ out[i].order_id \in IdSet(get_number_sellers(data).ret)
            /\ out[i].order_id \in IdSet(get_price_and_freight(data).ret)
            /\ call.args[2] =>
                 out[i].order_id \in IdSet(get_distance_seller_customer(data).ret)
            /\ \A c \in DOMAIN out[i] :
                 c \in NullableColumns => out[i][c] # NaN
            /\ "wait_time" \in DOMAIN out[i]
            /\ "review_score" \in DOMAIN out[i]
            /\ "price" \in DOMAIN out[i]
            /\ call.args[2] => "distance_seller_customer" \in DOMAIN out[i]

\* Two delivered orders with items, of which o2 lacks a review and o1 has
\* exactly one: the training table asked for with the distance has one row.
C2_Witness ==
    /\ Called("get_training_data")
    /\ call.args[2]
    /\ Len(Delivered) = 2
    /\ \A i \in DOMAIN data.orders :
         ~isna(data.orders[i].order_delivered_customer_date)
    /\ OrderIds(data.order_reviews) = <<"o1">>
    /\ ~isna(data.order_reviews[1].review_score)
    /\ IdSet(data.order_items) = {"o1", "o2"}
    /\ Len(out) = 1
    /\ out[1].order_id = "o1"

\* C3: delay_vs_expected is the number of whole days by which the delivery
\* instant exceeds the estimated instant when that number is positive, and 0
\* otherwise, also when a timestamp is missing; it is never negative.
C3_DelayIsClampedWholeDays ==
    Called("get_wait_time") =>
        \A i \in DOMAIN out :
            LET o == Source(out[i])
                d == o.order_delivered_customer_date
                e == o.order_estimated_delivery_date
                n == out[i].delay_vs_expected
            IN  /\ n >= 0
                /\ IF ~isna(d) /\ ~isna(e) /\ Ticks(d) - Ticks(e) >= TicksPerDay
                   THEN /\ n * TicksPerDay <= Ticks(d) - Ticks(e)
                        /\ Ticks(d) - Ticks(e) < (n + 1) * TicksPerDay
                   ELSE n = 0

\* One row a whole day late, one row early, one row without a delivery.
C3_Witness ==
    /\ Called("get_wait_time")
    /\ \E i \in DOMAIN out : out[i].delay_vs_expected >= 1
    /\ \E i \in DOMAIN out :
         LET o == Source(out[i])
         IN  \/ isna(o.order_delivered_customer_date)
             \/ /\ ~isna(o.order_estimated_delivery_date)
                /\ Ticks(o.order_delivered_customer_date)
                     < Ticks(o.order_estimated_delivery_date)

DerivedTables ==
    {"get_wait_time", "get_review_score", "get_number_products",
     "get_number_sellers", "get_price_and_freight",
     "get_distance_seller_customer"}

\* C4: the order_id values of every derived feature table are order_id
\* values of the Orders table, whatever Reviews and Order Items hold.
C4_DerivedIdsWithinOrders ==
    call.op \in DerivedTables => IdSet(out) \subseteq IdSet(data.orders)

\* C4 as amended: the wait-time and distance tables hold only order_id values
\* of Orders; the review table holds exactly the order_id values of Reviews,
\* and the product, seller and price tables exactly those of Order Items.
C4_DerivedIdsWithinTheirInput ==
    /\ call.op \in {"get_wait_time", "get_distance_seller_customer"} =>
         IdSet(out) \subseteq IdSet(data.orders)
    /\ Called("get_review_score") => IdSet(out) = IdSet(data.order_reviews)
    /\ call.op \in {"get_number_products", "get_number_sellers",
                    "get_price_and_freight"} =>
         IdSet(out) = IdSet(data.order_items)

\* The product table of a mapping whose Order Items lack an order of Orders
\* and hold an order that Orders lacks.
C4_Witness ==
    /\ Called("get_number_products")
    /\ IdSet(data.order_items) \ IdSet(data.orders) # {}
    /\ IdSet(data.orders) \ IdSet(data.order_items) # {}
    /\ IdSet(out) = IdSet(data.order_items)

Aggregated ==
    {"get_number_products", "get_number_sellers", "get_price_and_freight",
     "get_distance_seller_customer"}

\* C5: the product, seller, price and distance tables hold at most one row
\* per order_id.
C5_OrderIdUniqueAfterAggregation ==
    call.op \in Aggregated =>
        \A i, j \in DOMAIN out : out[i].order_id = out[j].order_id => i = j

\* An aggregated table of an order with several Order Items rows.
C5_Witness ==
    /\ call.op \in Aggregated
    /\ \E i \in DOMAIN out :
         Cardinality(RowsOf(data.order_items, out[i].order_id)) >= 2

\* C6: in the review table dim_is_five_star is 1 iff the score is 5 and 0
\* otherwise, dim_is_one_star is 1 iff the score is 1 and 0 otherwise, and
\* the two are never both 1.
C6_StarIndicators ==
    Called("get_review_score") =>
        \A i \in DOMAIN out :
            LET sc == out[i].review_score
            IN  /\ out[i].dim_is_five_star \in {0, 1}
                /\ out[i].dim_is_one_star \in {0, 1}
                /\ out[i].dim_is_five_star = 1 <=> sc = Some(5)
                /\ out[i].dim_is_one_star = 1 <=> sc = Some(1)
                /\ out[i].dim_is_five_star + out[i].dim_is_one_star <= 1
                /\ sc = data.order_reviews[i].review_score

\* A review table with a five-star row and a row that is neither.
C6_Witness ==
    /\ Called("get_review_score")
    /\ \E i \in DOMAIN out : out[i].dim_is_five_star = 1
    /\ \E i \in DOMAIN out : out[i].review_score \in {Some(2), Some(3), Some(4)}

\* C7: number_of_sellers is the number of distinct seller ids among the
\* order's Order Items rows, hence at most the number of those rows.
C7_DistinctSellers ==
    Called("get_number_sellers") =>
        \A i \in DOMAIN out :
            LET rows == RowsOf(data.order_items, out[i].order_id)
                sellers == {data.order_items[r].seller_id : r \in rows} \ {NaN}
            IN  /\ out[i].number_of_sellers = Cardinality(sellers)
                /\ out[i].number_of_sellers <= Cardinality(rows)

\* An order with two Order Items rows of one seller.
C7_Witness ==
    /\ Called("get_number_sellers")
    /\ \E i \in DOMAIN out :
         /\ out[i].number_of_sellers = 1
         /\ Cardinality(RowsOf(data.order_items, out[i].order_id)) = 2
         /\ \A r \in RowsOf(data.order_items, out[i].order_id) :
              ~isna(data.order_items[r].seller_id)

\* C8: wait_time and expected_wait_time of a delivered order are never
\* negative, whatever timestamps the Orders table holds.
C8_WaitTimesNonNegative ==
    Called("get_wait_time") =>
        \A i \in DOMAIN out :
            /\ ~isna(out[i].wait_time) => Val(out[i].wait_time) >= 0
            /\ ~isna(out[i].expected_wait_time) =>
                 Val(out[i].expected_wait_time) >= 0

\* C8 as amended: wait_time is the delivery instant minus the purchase
\* instant and expected_wait_time the estimated instant minus the purchase
\* instant, missing when a timestamp is missing and otherwise as computed, so
\* each is non-negative exactly when its timestamp is not before the purchase.
C8_WaitTimesAreDifferences ==
    Called("get_wait_time") =>
        \A i \in DOMAIN out :
            LET o == Source(out[i])
                p == o.order_purchase_timestamp
                d == o.order_delivered_customer_date
                e == o.order_estimated_delivery_date
            IN  /\ IsDelivered(o)
                /\ isna(out[i].wait_time) <=> isna(d)
                /\ ~isna(d) =>
                     /\ Val(out[i].wait_time) = Ticks(d) - Ticks(p)
                     /\ Val(out[i].wait_time) >= 0 <=> Ticks(d) >= Ticks(p)
                /\ isna(out[i].expected_wait_time) <=> isna(e)
                /\ ~isna(e) =>
                     /\ Val(out[i].expected_wait_time) = Ticks(e) - Ticks(p)
                     /\ Val(out[i].expected_wait_time) >= 0 <=> Ticks(e) >= Ticks(p)

\* A delivered order whose delivery precedes its purchase.
C8_Witness ==
    /\ Called("get_wait_time")
    /\ \E i \in DOMAIN out :
         /\ ~isna(out[i].wait_time)
         /\ Val(out[i].wait_time) < 0
         /\ ~isna(out[i].expected_wait_time)
         /\ Val(out[i].expected_wait_time) > 0

\* C9: no call changes self.data, and a call made again after any calls
\* returns the table it returned before.
C9_CallsLeaveDataAndRepeat ==
    /\ [][data' = data]_vars
    /\ [](memo.since >= 1 /\ memo.call = call => out = memo.out)

\* The training table asked for again, two or more calls after it was first
\* returned.
C9_Witness ==
    /\ memo.since >= 2
    /\ memo.call = call
    /\ Called("get_training_data")
    /\ out # <<>>

\* C10: a delivered order with a delivery timestamp, at least one Order
\* Items row and k reviews that all have a score (and a distance, when the
\* distance is asked for) has exactly k rows in the training table.
C10_OneTrainingRowPerReview ==
    Called("get_training_data") =>
        \A i \in DOMAIN data.orders :
            LET o == data.orders[i]
                reviews == RowsOf(data.order_reviews, o.order_id)
            IN  (/\ IsDelivered(o)
                 /\ ~isna(o.order_delivered_customer_date)
                 /\ ~isna(o.order_estimated_delivery_date)
                 /\ RowsOf(data.order_items, o.order_id) # {}
                 /\ \A r \in reviews : ~isna(data.order_reviews[r].review_score)
                 /\ call.args[2] =>
                      o.order_id \in IdSet(get_distance_seller_customer(data).ret))
                => Cardinality(RowsOf(out, o.order_id)) = Cardinality(reviews)

\* An order with two reviews and two rows in the training table.
C10_Witness ==
    /\ Called("get_training_data")
    /\ \E i \in DOMAIN data.orders :
         /\ Cardinality(RowsOf(data.order_reviews, data.orders[i].order_id)) = 2
         /\ Cardinality(RowsOf(out, data.orders[i].order_id)) = 2

====
